---------------------------- MODULE Spec2Model ----------------------------
(***************************************************************************)
(* Model of the social-post generation service of src/main.py.            *)
(*                                                                         *)
(* A Python str is modelled as a sequence of code points.  A code point    *)
(* is a one-character TLA+ string; the four non-ASCII code points of the   *)
(* templates are named by their Unicode number (Arrow, EmDash, Bullet,     *)
(* Wink), each being ONE element of a sequence, as it is one character of  *)
(* a Python str.                                                           *)
(***************************************************************************)
EXTENDS Integers, Sequences, FiniteSets, TLC

VARIABLES
    pc,        \* endpoint: position of the single HTTP exchange
    body,      \* endpoint: the JSON body of POST /api/generate
    req,       \* endpoint: the GenerateRequest the handler is given
    resp,      \* endpoint: the HTTP response
    call,      \* unit: the function being called and its arguments
    ret,       \* unit: what the call returned or raised
    tpc,       \* workers: position of each worker thread inside generate
    treq,      \* workers: the request each worker thread serves
    frame,     \* workers: the local variables of each thread's generate_posts
    tresp      \* workers: the response each worker thread produced

vars == <<pc, body, req, resp, call, ret, tpc, treq, frame, tresp>>

-----------------------------------------------------------------------------
(* Code points and Python's str primitives                                 *)

\* A string literal of the source as a sequence of code points.
Str(s) == [i \in 1..Len(s) |-> SubSeq(s, i, i)]

Arrow  == "U+2192"    \* RIGHTWARDS ARROW, line 171
EmDash == "U+2014"    \* EM DASH, line 99
Bullet == "U+2022"    \* BULLET, lines 157-159
Wink   == "U+1F609"   \* WINKING FACE, line 171

Upper == Str("ABCDEFGHIJKLMNOPQRSTUVWXYZ")
Lower == Str("abcdefghijklmnopqrstuvwxyz")
Digit == Str("0123456789")

Range(s) == {s[i] : i \in DOMAIN s}

Min(a, b) == IF a < b THEN a ELSE b

\* str.isspace for one code point (the ASCII whitespace of Python).
IsSpace(c) == c \in {" ", "\t", "\n", "\r", "\f"}

\* str.isalpha for one code point.
IsAlphaChar(c) == c \in Range(Upper) \cup Range(Lower)

\* str.isalpha: non-empty and every code point alphabetic.
IsAlpha(s) == s # <<>> /\ \A i \in DOMAIN s : IsAlphaChar(s[i])

\* str.lower for one code point.
LowerChar(c) ==
    IF c \in Range(Upper)
    THEN Lower[CHOOSE i \in DOMAIN Upper : Upper[i] = c]
    ELSE c

\* str.lower
ToLower(s) == [i \in DOMAIN s |-> LowerChar(s[i])]

\* str.strip(): drop leading and trailing whitespace.
Strip(s) ==
    LET keep == {i \in DOMAIN s : ~IsSpace(s[i])}
    IN  IF keep = {} THEN <<>>
        ELSE SubSeq(s, CHOOSE i \in keep : \A j \in keep : i <= j,
                       CHOOSE i \in keep : \A j \in keep : j <= i)

\* str.replace(old, new) for a one-character old and a one-character new.
Replace(s, old, new) == [i \in DOMAIN s |-> IF s[i] = old THEN new ELSE s[i]]

\* str.replace(old, ''): every occurrence of the character removed.
Remove(s, old) == SelectSeq(s, LAMBDA c : c # old)

\* s[:n]
Take(s, n) == SubSeq(s, 1, Min(n, Len(s)))

\* The elements of s at the indices I, in increasing order of index.
Pick(s, I) ==
    [k \in 1..Cardinality(I) |->
        s[CHOOSE i \in I : Cardinality({j \in I : j < i}) = k - 1]]

\* str.split(): split on runs of whitespace, no empty tokens.  A token
\* starts at a non-space that follows a space or nothing, and ends at a
\* non-space that a space or nothing follows.
Split(s) ==
    LET starts == {i \in DOMAIN s :
                      ~IsSpace(s[i]) /\ (i = 1 \/ IsSpace(s[i - 1]))}
        stops  == {i \in DOMAIN s :
                      ~IsSpace(s[i]) /\ (i = Len(s) \/ IsSpace(s[i + 1]))}
        index  == [i \in DOMAIN s |-> i]
        from   == Pick(index, starts)
        to     == Pick(index, stops)
    IN  [k \in DOMAIN from |-> SubSeq(s, from[k], to[k])]

\* sep.join(parts), by halves
RECURSIVE Join(_, _)
Join(parts, sep) ==
    IF parts = <<>> THEN <<>>
    ELSE IF Len(parts) = 1 THEN parts[1]
    ELSE LET h == Len(parts) \div 2
         IN  Join(SubSeq(parts, 1, h), sep) \o sep
                 \o Join(SubSeq(parts, h + 1, Len(parts)), sep)

\* str(n) for a non-negative int, as an f-string formats it.
RECURSIVE IntStr(_)
IntStr(n) ==
    IF n < 10 THEN <<Digit[n + 1]>>
    ELSE IntStr(n \div 10) \o <<Digit[(n % 10) + 1]>>

-----------------------------------------------------------------------------
(* Program constants                                                       *)

MinIdeaLen   == 3      \* Field(min_length=3), len(idea_clean) < 3
TagChars     == 22     \* [:22] in _hashtagify
MaxTags      == 12     \* tags[:12]
MaxKeywords  == 10     \* uniq[:10]
PromptChars  == 300    \* prompt[:300]
TweetChars   == 275    \* punchy[:275]
li_width     == 1200
li_height    == 627
tw_width     == 1200
tw_height    == 675
ig_width     == 1080
ig_height    == 1350

\* The values of Literal["professional", "witty", "urgent"].
Tones == {"professional", "witty", "urgent"}

\* The values of Literal["linkedin", "twitter", "instagram"].
Platforms == {"linkedin", "twitter", "instagram"}

-----------------------------------------------------------------------------
(* urllib.parse.quote_plus                                                 *)

\* The characters quote() never escapes: letters, digits and "_.-~".
AlwaysSafe == Range(Upper) \cup Range(Lower) \cup Range(Digit) \cup {"_", ".", "-", "~"}

\* The UTF-8 bytes of a code point, in the hexadecimal of "%XX".
Utf8Hex(c) ==
    CASE c = "\t" -> <<"09">>
      [] c = "\n" -> <<"0A">>
      [] c = "\f" -> <<"0C">>
      [] c = "\r" -> <<"0D">>
      [] c = "!"  -> <<"21">>
      [] c = "#"  -> <<"23">>
      [] c = "'"  -> <<"27">>
      [] c = "+"  -> <<"2B">>
      [] c = ","  -> <<"2C">>
      [] c = "/"  -> <<"2F">>
      [] c = ":"  -> <<"3A">>
      [] c = "?"  -> <<"3F">>
      [] c = Bullet -> <<"E2", "80", "A2">>
      [] c = EmDash -> <<"E2", "80", "94">>
      [] c = Arrow  -> <<"E2", "86", "92">>
      [] c = Wink   -> <<"F0", "9F", "98", "89">>

\* quote_plus of one code point: safe characters as they are, a space as
\* "+", anything else as "%XX" for each of its UTF-8 bytes.
QuoteChar(c) ==
    IF c \in AlwaysSafe THEN <<c>>
    ELSE IF c = " " THEN <<"+">>
    ELSE LET bytes == Utf8Hex(c)
         IN  Join([i \in DOMAIN bytes |-> <<"%">> \o Str(bytes[i])], <<>>)

\* quote_plus(s)
quote_plus(s) == Join([i \in DOMAIN s |-> QuoteChar(s[i])], <<>>)

-----------------------------------------------------------------------------
(* Content generation utilities, src/main.py lines 95-130                  *)

ToneSuffix(tone) ==
    CASE tone = "professional" ->
            Str(" Let's focus on measurable value, clear outcomes, and next steps.")
      [] tone = "witty" ->
            Str(" Let's keep it sharp, playful, and scroll-stopping.")
      [] tone = "urgent" ->
            Str(" Act now") \o <<EmDash>> \o Str("this window won't stay open long.")

\* tone_map.get(tone, prefix)
_apply_tone(prefix, tone) ==
    IF tone \in Tones THEN prefix \o ToneSuffix(tone) ELSE prefix

\* "#" and the keyword stripped, its spaces removed, cut to 22 characters.
Tag(k) == <<"#">> \o Take(Remove(Strip(k), " "), TagChars)

\* The list comprehension of _hashtagify: a tag for each keyword whose strip is non-empty.
Tags(keywords) ==
    LET kept == SelectSeq(keywords, LAMBDA k : Strip(k) # <<>>)
    IN  [i \in DOMAIN kept |-> Tag(kept[i])]

\* A slip: the cut to 12 tags forgotten.
_hashtagify_NoLimit(keywords) == Join(Tags(keywords), <<" ">>)

_hashtagify(keywords) == Join(Take(Tags(keywords), MaxTags), <<" ">>)

\* A slip: the parts not lowered.
Parts_NoLower(idea) ==
    LET raw == Split(Replace(Replace(idea, "-", " "), "/", " "))
    IN  [i \in DOMAIN raw |-> Strip(raw[i])]

\* parts: the idea with "-" and "/" made spaces, split, each part stripped and lowered.
Parts(idea) ==
    LET raw == Split(Replace(Replace(idea, "-", " "), "/", " "))
    IN  [i \in DOMAIN raw |-> ToLower(Strip(raw[i]))]

\* The loop over parts: append a part when it is alphabetic and not yet in uniq.
RECURSIVE Uniq(_, _)
Uniq(parts, uniq) ==
    IF parts = <<>> THEN uniq
    ELSE LET p == Head(parts)
         IN  Uniq(Tail(parts),
                  IF IsAlpha(p) /\ p \notin Range(uniq) THEN Append(uniq, p) ELSE uniq)

GenericTags == <<Str("creator"), Str("content"), Str("marketing")>>

_keywords_from_idea(idea) ==
    LET uniq == Uniq(Parts(idea), <<>>)
    IN  Take(IF uniq = <<>> THEN GenericTags ELSE uniq, MaxKeywords)

ImageHost == Str("https://image.pollinations.ai/prompt/")

\* A slip: the scheme written http.
_ai_image_Http(width, height, prompt) ==
    Str("http://image.pollinations.ai/prompt/") \o quote_plus(Take(prompt, PromptChars))
        \o Str("?width=") \o IntStr(width)
        \o Str("&height=") \o IntStr(height) \o Str("&nologo=true")

\* A slip: width and height exchanged in the query.
_ai_image_Swapped(width, height, prompt) ==
    ImageHost \o quote_plus(Take(prompt, PromptChars))
        \o Str("?width=") \o IntStr(height)
        \o Str("&height=") \o IntStr(width) \o Str("&nologo=true")

_ai_image(width, height, prompt) ==
    LET qp == quote_plus(Take(prompt, PromptChars))
    IN  ImageHost \o qp \o Str("?width=") \o IntStr(width)
            \o Str("&height=") \o IntStr(height) \o Str("&nologo=true")

-----------------------------------------------------------------------------
(* generate_posts, src/main.py lines 133-194                               *)

\* The outcome of a call: the value it returns or the exception it raises.
Return(v)      == [kind |-> "return", value |-> v]
Raise(exc, m)  == [kind |-> "raise", exc |-> exc, msg |-> m]

ValueErrorMsg == "Idea must be at least 3 characters long"

PlatformPost(text, image_url, width, height, platform) ==
    [text |-> text, image_url |-> image_url, width |-> width, height |-> height,
     platform |-> platform]

\* tone_intro = {...}[tone]
tone_intro(tone) ==
    CASE tone = "professional" -> Str("Here's a strategic take:")
      [] tone = "witty"        -> Str("Hot take (with a wink):")
      [] tone = "urgent"       -> Str("Don't sleep on this:")

\* visual_style = {...}[tone]
visual_style(tone) ==
    CASE tone = "professional" ->
            Str("clean minimalist corporate, bold typography, soft gradients, high contrast")
      [] tone = "witty" ->
            Str("playful vibrant, 3D icons, colorful gradients, dynamic composition, stickers")
      [] tone = "urgent" ->
            Str("bold red accents, high contrast, motion blur, impactful headline graphic")

li_paragraphs(idea_clean, tone) ==
    << tone_intro(tone) \o <<" ">> \o idea_clean \o <<".">>,
       _apply_tone(Str("Why it matters:"), tone),
       <<Bullet>> \o Str(" Impact: Drive results through clarity and focus.\n")
           \o <<Bullet>> \o Str(" Approach: Start small, iterate fast, and measure what matters.\n")
           \o <<Bullet>> \o Str(" Outcome: Momentum that compounds."),
       Str("Curious to dive deeper? Let's connect.") >>

li_text(idea_clean, tone) == Join(li_paragraphs(idea_clean, tone), Str("\n\n"))

li_prompt(idea_clean, tone, keywords) ==
    Str("LinkedIn banner, ") \o visual_style(tone) \o Str(", topic: ") \o idea_clean
        \o Str(", icons for ") \o Join(keywords, Str(", ")) \o Str(", ")
        \o Str("branding-friendly, vector style, centered composition")

punchy(idea_clean, tone) ==
    idea_clean \o <<" ", Arrow>> \o Str(" Make it real. ")
        \o (IF tone # "witty" THEN <<>> ELSE <<Wink, " ">>)
        \o Str("#buildinpublic")

\* A slip: the cut to 275 characters forgotten.
tw_text_NoCut(idea_clean, tone) == punchy(idea_clean, tone)

tw_text(idea_clean, tone) == Take(punchy(idea_clean, tone), TweetChars)

tw_prompt(idea_clean, tone) ==
    Str("Twitter/X social card, ") \o visual_style(tone) \o Str(", topic: ") \o idea_clean
        \o Str(", high readability, ") \o Str("strong focal point, modern UI motif")

\* A slip: the tone left out of the keyword list.
ig_keywords_NoTone(keywords, tone) ==
    keywords \o <<Str("socialmedia"), Str("content"), Str("brand")>>

\* The keyword list handed to _hashtagify on line 182.
ig_keywords(keywords, tone) ==
    keywords \o <<Str(tone), Str("socialmedia"), Str("content"), Str("brand")>>

ig_tags(keywords, tone) == _hashtagify(ig_keywords(keywords, tone))

ig_text(idea_clean, tone, keywords) ==
    _apply_tone(idea_clean, tone) \o Str("\n\n") \o ig_tags(keywords, tone)

ig_prompt(idea_clean, tone) ==
    Str("Instagram portrait poster, ") \o visual_style(tone) \o Str(", topic: ") \o idea_clean
        \o Str(", editorial design, ")
        \o Str("eye-catching, aesthetic photography + graphic overlay")

\* The dict built by the return statement of generate_posts.
Posts(idea_clean, tone, keywords) ==
    [linkedin  |-> PlatformPost(li_text(idea_clean, tone),
                                _ai_image(li_width, li_height,
                                          li_prompt(idea_clean, tone, keywords)),
                                li_width, li_height, "linkedin"),
     twitter   |-> PlatformPost(tw_text(idea_clean, tone),
                                _ai_image(tw_width, tw_height, tw_prompt(idea_clean, tone)),
                                tw_width, tw_height, "twitter"),
     instagram |-> PlatformPost(ig_text(idea_clean, tone, keywords),
                                _ai_image(ig_width, ig_height, ig_prompt(idea_clean, tone)),
                                ig_width, ig_height, "instagram")]

\* A slip: ideas of two characters let through.
TooShort_OffByOne(idea_clean) == Len(idea_clean) < MinIdeaLen - 1

\* The idea is too short once stripped: line 135.
TooShort(idea_clean) == Len(idea_clean) < MinIdeaLen

\* The subscript {...}[tone] of lines 139-150 finds no such key.
NoSuchTone(tone) == tone \notin Tones

generate_posts(idea, tone) ==
    LET idea_clean == Strip(idea)
    IN  IF TooShort(idea_clean) THEN Raise("ValueError", ValueErrorMsg)
        ELSE IF NoSuchTone(tone) THEN Raise("KeyError", tone)
        ELSE Return(Posts(idea_clean, tone, _keywords_from_idea(idea_clean)))

-----------------------------------------------------------------------------
(* Inputs                                                                  *)

MaxShort == 3     \* every idea of up to this many characters is tried
MaxWords == 12    \* ideas of up to this many distinct words are tried
MaxRun   == 300   \* the longest run of one character in an idea
MaxFill  == 13    \* the longest tail of equal keywords in a keyword list

\* lower case, upper case, digit, space, tab, and the two separators of line 111
Alphabet == {"a", "B", "1", " ", "\t", "-", "/"}

SeqsUpTo(S, n) == UNION {[1..k -> S] : k \in 0..n}

Run(c, n) == [i \in 1..n |-> c]

\* The i-th of 26 distinct alphabetic words; every third one is capitalised.
Word(i) == IF i % 3 = 0 THEN <<Upper[i], Lower[i]>> ELSE <<Lower[i], Lower[i]>>

WordsIdea(n, sep) == Join([i \in 1..n |-> Word(i)], <<sep>>)

\* Run lengths around the cuts of lines 105 and 172, and one beyond line 127's.
RunLens ==
    ((TagChars - 1)..(TagChars + 1)) \cup ((TweetChars - 34)..(TweetChars - 30))
        \cup {MaxRun}

ShortIdeas == SeqsUpTo(Alphabet, MaxShort)

WordIdeas == {WordsIdea(n, sep) : n \in 1..MaxWords, sep \in {" ", "-", "/"}}

LongIdeas ==
    {pre \o Run(c, n) \o post :
        pre \in {<<>>, Str(" go ")}, c \in {"a", "1"}, n \in RunLens,
        post \in {<<>>, Str(" Go a")}}

SpecIdeas ==
    {Str("AI-powered growth hacks"), Str("AI-powered growth hacks!"),
     Str("eco-friendly sneakers"), Str("ab"), Str("b B b")}

Ideas == ShortIdeas \cup WordIdeas \cup LongIdeas \cup SpecIdeas

\* A tone outside the Literal of line 21.
OtherTones == {"casual"}

\* The request body carries no "tone" member.
NoTone == "<absent>"

\* Keywords as _hashtagify may be handed them: empty, blank, padded, with
\* inner spaces and tabs, and around the 22-character cut.
SomeKeywords ==
    {<<>>, <<" ">>, Str("a"), Str(" a b "), Str("a\tb"), Str("\ta "),
     Run("x", TagChars), Run("x", TagChars + 1), Str(" y y") \o Run("z", TagChars - 1)}

KeywordLists ==
    {pre \o Run(k, n) : pre \in SeqsUpTo(SomeKeywords, 2),
                        k \in {Str("k"), <<" ">>}, n \in 0..MaxFill}

None == [kind |-> "none"]

-----------------------------------------------------------------------------
(* POST /api/generate: one HTTP exchange, src/main.py lines 19-21, 197-205 *)

EndpointIdle == pc = "idle" /\ body = None /\ req = None /\ resp = None
UnitIdle     == call = None /\ ret = None
WorkersIdle  == tpc = <<>> /\ treq = <<>> /\ frame = <<>> /\ tresp = <<>>

Init == EndpointIdle /\ UnitIdle /\ WorkersIdle

\* A client posts a JSON body with a string idea and, maybe, a tone.
Receive ==
    /\ pc = "idle"
    /\ \E idea \in Ideas, tone \in Tones \cup OtherTones \cup {NoTone} :
          body' = [idea |-> idea, tone |-> tone]
    /\ pc' = "parsing"
    /\ UNCHANGED <<req, resp, call, ret, tpc, treq, frame, tresp>>

\* GenerateRequest accepts the body: idea of min_length 3, tone one of the Literal.
SchemaAccepts(b) ==
    /\ Len(b.idea) >= MinIdeaLen
    /\ b.tone \in Tones \cup {NoTone}

\* A slip: the default of tone not declared.
GenerateRequest_NoDefault(b) == [idea |-> b.idea, tone |-> b.tone]

\* The GenerateRequest built from an accepted body: tone defaults to "professional".
GenerateRequest(b) ==
    [idea |-> b.idea,
     tone |-> IF b.tone = NoTone THEN "professional" ELSE b.tone]

\* The framework validates the body against GenerateRequest before the
\* handler runs, and answers 422 itself when validation fails.
Validate ==
    /\ pc = "parsing"
    /\ IF SchemaAccepts(body)
       THEN /\ req' = GenerateRequest(body)
            /\ pc' = "handling"
            /\ resp' = resp
       ELSE /\ resp' = [status |-> 422, detail |-> "validation error"]
            /\ pc' = "done"
            /\ req' = req
    /\ UNCHANGED <<body, call, ret, tpc, treq, frame, tresp>>

\* GenerateResponse(**posts)
GenerateResponse(posts) ==
    [linkedin |-> posts.linkedin, twitter |-> posts.twitter,
     instagram |-> posts.instagram]

\* The response of the handler generate for an outcome of generate_posts.
Respond(outcome) ==
    IF outcome.kind = "return"
    THEN [status |-> 200, body |-> GenerateResponse(outcome.value)]
    ELSE IF outcome.exc = "ValueError"
    THEN [status |-> 400, detail |-> outcome.msg]
    ELSE [status |-> 500, detail |-> "Failed to generate content"]

\* The handler generate(req), whole.
generate ==
    /\ pc = "handling"
    /\ resp' = Respond(generate_posts(req.idea, req.tone))
    /\ pc' = "done"
    /\ UNCHANGED <<body, req, call, ret, tpc, treq, frame, tresp>>

Next == Receive \/ Validate \/ generate

Spec == Init /\ [][Next]_vars

-----------------------------------------------------------------------------
(* Direct calls of the functions                                           *)

\* generate_posts(idea, tone) for any str tone.
InitPosts ==
    /\ EndpointIdle /\ WorkersIdle
    /\ call \in {[fn |-> "generate_posts", idea |-> idea, tone |-> tone] :
                    idea \in Ideas, tone \in Tones \cup OtherTones}
    /\ ret = None

RunPosts ==
    /\ call.fn = "generate_posts" /\ ret = None
    /\ ret' = generate_posts(call.idea, call.tone)
    /\ UNCHANGED <<pc, body, req, resp, call, tpc, treq, frame, tresp>>

SpecPosts == InitPosts /\ [][RunPosts]_vars

\* _keywords_from_idea(idea)
InitKeywords ==
    /\ EndpointIdle /\ WorkersIdle
    /\ call \in {[fn |-> "_keywords_from_idea", idea |-> idea] : idea \in Ideas}
    /\ ret = None

RunKeywords ==
    /\ call.fn = "_keywords_from_idea" /\ ret = None
    /\ ret' = Return(_keywords_from_idea(call.idea))
    /\ UNCHANGED <<pc, body, req, resp, call, tpc, treq, frame, tresp>>

SpecKeywords == InitKeywords /\ [][RunKeywords]_vars

\* _hashtagify(keywords)
InitHashtags ==
    /\ EndpointIdle /\ WorkersIdle
    /\ call \in {[fn |-> "_hashtagify", keywords |-> k] : k \in KeywordLists}
    /\ ret = None

RunHashtags ==
    /\ call.fn = "_hashtagify" /\ ret = None
    /\ ret' = Return(_hashtagify(call.keywords))
    /\ UNCHANGED <<pc, body, req, resp, call, tpc, treq, frame, tresp>>

SpecHashtags == InitHashtags /\ [][RunHashtags]_vars

-----------------------------------------------------------------------------
(* Worker threads: the handler generate is a plain def, so the framework   *)
(* runs each request on a thread of its pool, and the threads interleave   *)
(* between the statements of generate_posts.  All names assigned in        *)
(* lines 133-194 are locals of the call: they live in frame[t].            *)

NumThreads == 2

Threads == 1..NumThreads

\* The validated requests the workers are handed.
WorkerRequests ==
    {[idea |-> idea, tone |-> tone] :
        idea \in {Str("a\t "), Str("a-B a"), Str("abc")},
        tone \in {"professional", "witty"}}

InitWorkers ==
    /\ EndpointIdle /\ UnitIdle
    /\ tpc = [t \in Threads |-> "idle"]
    /\ treq = [t \in Threads |-> None]
    /\ frame = [t \in Threads |-> None]
    /\ tresp = [t \in Threads |-> None]

\* The framework hands thread t a validated request: generate(req) starts.
Dispatch(t) ==
    /\ tpc[t] = "idle"
    /\ \E r \in WorkerRequests : treq' = [treq EXCEPT ![t] = r]
    /\ tpc' = [tpc EXCEPT ![t] = "clean"]
    /\ UNCHANGED <<pc, body, req, resp, call, ret, frame, tresp>>

\* Lines 134-136: idea_clean, and the ValueError that generate turns into a 400.
Clean(t) ==
    /\ tpc[t] = "clean"
    /\ LET idea_clean == Strip(treq[t].idea)
       IN  IF TooShort(idea_clean)
           THEN /\ tresp' = [tresp EXCEPT ![t] = Respond(Raise("ValueError", ValueErrorMsg))]
                /\ tpc' = [tpc EXCEPT ![t] = "done"]
                /\ frame' = frame
           ELSE /\ frame' = [frame EXCEPT ![t] = [idea_clean |-> idea_clean]]
                /\ tpc' = [tpc EXCEPT ![t] = "keywords"]
                /\ tresp' = tresp
    /\ UNCHANGED <<pc, body, req, resp, call, ret, treq>>

\* A slip: idea_clean kept in a module-level name, which every thread
\* writes and reads; here the thread reads what the first thread wrote.
IdeaRead_Shared(t) ==
    LET live == {u \in Threads : frame[u] # None}
    IN  frame[CHOOSE u \in live : \A v \in live : u <= v].idea_clean

\* The idea line 138 of thread t reads: its own local idea_clean.
IdeaRead(t) == frame[t].idea_clean

\* Line 138: keywords.
Keywords(t) ==
    /\ tpc[t] = "keywords"
    /\ frame' = [frame EXCEPT ![t] = @ @@ [keywords |-> _keywords_from_idea(IdeaRead(t))]]
    /\ tpc' = [tpc EXCEPT ![t] = "linkedin"]
    /\ UNCHANGED <<pc, body, req, resp, call, ret, treq, tresp>>

\* Lines 152-167: li_text and li_img.
LinkedIn(t) ==
    /\ tpc[t] = "linkedin"
    /\ LET f == frame[t]
           tone == treq[t].tone
       IN  frame' = [frame EXCEPT ![t] = @ @@
                [li_text |-> li_text(f.idea_clean, tone),
                 li_img  |-> _ai_image(li_width, li_height,
                                       li_prompt(f.idea_clean, tone, f.keywords))]]
    /\ tpc' = [tpc EXCEPT ![t] = "twitter"]
    /\ UNCHANGED <<pc, body, req, resp, call, ret, treq, tresp>>

\* Lines 169-177: tw_text and tw_img.
Twitter(t) ==
    /\ tpc[t] = "twitter"
    /\ LET f == frame[t]
           tone == treq[t].tone
       IN  frame' = [frame EXCEPT ![t] = @ @@
                [tw_text |-> tw_text(f.idea_clean, tone),
                 tw_img  |-> _ai_image(tw_width, tw_height, tw_prompt(f.idea_clean, tone))]]
    /\ tpc' = [tpc EXCEPT ![t] = "instagram"]
    /\ UNCHANGED <<pc, body, req, resp, call, ret, treq, tresp>>

\* Lines 179-188: ig_text and ig_img.
Instagram(t) ==
    /\ tpc[t] = "instagram"
    /\ LET f == frame[t]
           tone == treq[t].tone
       IN  frame' = [frame EXCEPT ![t] = @ @@
                [ig_text |-> ig_text(f.idea_clean, tone, f.keywords),
                 ig_img  |-> _ai_image(ig_width, ig_height, ig_prompt(f.idea_clean, tone))]]
    /\ tpc' = [tpc EXCEPT ![t] = "return"]
    /\ UNCHANGED <<pc, body, req, resp, call, ret, treq, tresp>>

\* Lines 190-201: the dict of posts, and the 200 generate answers with it.
ReturnPosts(t) ==
    /\ tpc[t] = "return"
    /\ LET f == frame[t]
           posts ==
              [linkedin  |-> PlatformPost(f.li_text, f.li_img, li_width, li_height, "linkedin"),
               twitter   |-> PlatformPost(f.tw_text, f.tw_img, tw_width, tw_height, "twitter"),
               instagram |-> PlatformPost(f.ig_text, f.ig_img, ig_width, ig_height, "instagram")]
       IN  tresp' = [tresp EXCEPT ![t] = Respond(Return(posts))]
    /\ tpc' = [tpc EXCEPT ![t] = "done"]
    /\ UNCHANGED <<pc, body, req, resp, call, ret, treq, frame>>

\* The response is sent and the thread goes back to the pool: the frame is gone.
Release(t) ==
    /\ tpc[t] = "done"
    /\ tpc' = [tpc EXCEPT ![t] = "idle"]
    /\ treq' = [treq EXCEPT ![t] = None]
    /\ frame' = [frame EXCEPT ![t] = None]
    /\ tresp' = [tresp EXCEPT ![t] = None]
    /\ UNCHANGED <<pc, body, req, resp, call, ret>>

NextWorkers ==
    \E t \in Threads :
        \/ Dispatch(t) \/ Clean(t) \/ Keywords(t) \/ LinkedIn(t)
        \/ Twitter(t) \/ Instagram(t) \/ ReturnPosts(t) \/ Release(t)

SpecWorkers == InitWorkers /\ [][NextWorkers]_vars

-----------------------------------------------------------------------------
(* Vocabulary of the properties                                            *)

\* s starts with p
StartsWith(s, p) == Len(s) >= Len(p) /\ SubSeq(s, 1, Len(p)) = p

\* The number of pieces s falls into when cut at every single space.
SpacePieces(s) == IF s = <<>> THEN 0 ELSE 1 + Cardinality({i \in DOMAIN s : s[i] = " "})

\* No piece of s between two spaces is longer than n.
PiecesWithin(s, n) ==
    \A i \in 1..(Len(s) - n) : \E j \in i..(i + n) : s[j] = " "

\* The exchange is over and its body had a tone the schema accepts.
Answered == pc = "done" /\ body.tone \in Tones \cup {NoTone}

\* The direct call has come back.
Called == ret # None

Returned == ret # None /\ ret.kind = "return"

CleanIdea == Strip(call.idea)

-----------------------------------------------------------------------------
(* C1 *)

-----------------------------------------------------------------------------
(* C2 *)

\* C2: for an idea of trimmed length >= 3 and a tone of the Literal,
\* generate_posts returns exactly the keys linkedin, twitter and instagram,
\* each post with a non-empty text, an image_url that starts with
\* https://image.pollinations.ai/prompt/ and a platform equal to its key.
C2_ThreeWellFormedPosts ==
    (Called /\ Len(CleanIdea) >= 3 /\ call.tone \in {"professional", "witty", "urgent"})
        => /\ ret.kind = "return"
           /\ DOMAIN ret.value = {"linkedin", "twitter", "instagram"}
           /\ \A p \in DOMAIN ret.value :
                 /\ ret.value[p].text # <<>>
                 /\ StartsWith(ret.value[p].image_url,
                               Str("https://image.pollinations.ai/prompt/"))
                 /\ ret.value[p].platform = p

\* A three-character idea came back with its posts.
C2_Witness == Returned /\ Len(CleanIdea) = 3 /\ call.tone = "urgent"

-----------------------------------------------------------------------------
(* C3 *)

\* C3 as stated: generate_posts raises ValueError when the trimmed idea is
\* shorter than 3 characters and returns a result for every other input,
\* whatever the tone.
C3_OnlyShortIdeasFail ==
    Called => IF Len(CleanIdea) < 3
              THEN ret.kind = "raise" /\ ret.exc = "ValueError"
              ELSE ret.kind = "return"

-----------------------------------------------------------------------------
(* C5 *)

\* C5: the twitter text of every returned result has at most 275 characters.
C5_TweetWithin275 == Returned => Len(ret.value.twitter.text) <= 275

\* An idea longer than 275 characters was cut to a tweet of exactly 275.
C5_Witness ==
    Returned /\ Len(CleanIdea) > 275 /\ Len(ret.value.twitter.text) = 275

-----------------------------------------------------------------------------
(* C6 *)

\* C6: the string _hashtagify returns holds at most 12 space-separated
\* tags, each of at most 23 characters with its "#".
C6_TagLimits ==
    (Called /\ call.fn = "_hashtagify")
        => SpacePieces(ret.value) <= 12 /\ PiecesWithin(ret.value, 23)

\* More than 12 keywords, one of them longer than 22 characters, were handed in.
C6_Witness ==
    /\ Called /\ call.fn = "_hashtagify"
    /\ Cardinality({i \in DOMAIN call.keywords : Strip(call.keywords[i]) # <<>>}) > 12
    /\ Len(Strip(call.keywords[1])) > 22
    /\ SpacePieces(ret.value) = 12

-----------------------------------------------------------------------------
(* C7 *)

\* The prompt line 164, 174 or 185 builds for platform p.
PromptOf(p) ==
    LET kw == _keywords_from_idea(CleanIdea)
    IN  CASE p = "linkedin"  -> li_prompt(CleanIdea, call.tone, kw)
          [] p = "twitter"   -> tw_prompt(CleanIdea, call.tone)
          [] p = "instagram" -> ig_prompt(CleanIdea, call.tone)

\* C7: every image_url is the host, the quote_plus of the first 300
\* characters of its platform's prompt, and ?width=W&height=H&nologo=true
\* with the post's own W and H, which are 1200x627, 1200x675 and 1080x1350.
C7_ImageUrlShape ==
    Returned =>
        /\ \A p \in {"linkedin", "twitter", "instagram"} :
              LET post == ret.value[p]
              IN  post.image_url =
                      Str("https://image.pollinations.ai/prompt/")
                          \o quote_plus(SubSeq(PromptOf(p), 1, Min(300, Len(PromptOf(p)))))
                          \o Str("?width=") \o IntStr(post.width)
                          \o Str("&height=") \o IntStr(post.height)
                          \o Str("&nologo=true")
        /\ ret.value.linkedin.width = 1200  /\ ret.value.linkedin.height = 627
        /\ ret.value.twitter.width = 1200   /\ ret.value.twitter.height = 675
        /\ ret.value.instagram.width = 1080 /\ ret.value.instagram.height = 1350

\* A result whose three prompts were all longer than 300 characters.
C7_Witness ==
    Returned /\ \A p \in {"linkedin", "twitter", "instagram"} : Len(PromptOf(p)) > 300

-----------------------------------------------------------------------------
(* C8 *)

\* C8: _keywords_from_idea returns at most 10 pairwise distinct, lower-case,
\* alphabetic tokens in the order of their first occurrence among the
\* whitespace-separated tokens of the idea with "-" and "/" taken as
\* spaces; it returns creator, content, marketing when no token qualifies.
C8_Keywords ==
    (Called /\ call.fn = "_keywords_from_idea") =>
        LET kw   == ret.value
            toks == Split([i \in DOMAIN call.idea |->
                              IF call.idea[i] \in {"-", "/"} THEN " "
                              ELSE LowerChar(call.idea[i])])
            good == {i \in DOMAIN toks : IsAlpha(toks[i])}
            first(w) == CHOOSE i \in good : toks[i] = w /\ \A j \in good : toks[j] = w => i <= j
        IN  /\ Len(kw) <= 10 /\ kw # <<>>
            /\ \A i, j \in DOMAIN kw : i # j => kw[i] # kw[j]
            /\ \A i \in DOMAIN kw : IsAlpha(kw[i]) /\ ToLower(kw[i]) = kw[i]
            /\ IF good = {}
               THEN kw = <<Str("creator"), Str("content"), Str("marketing")>>
               ELSE /\ \A i \in DOMAIN kw : \E g \in good : toks[g] = kw[i]
                    /\ \A i, j \in DOMAIN kw : i < j => first(kw[i]) < first(kw[j])
                    \* nothing that qualifies is skipped before the cut at 10
                    /\ \A g \in good :
                          (\E i \in DOMAIN kw : kw[i] = toks[g])
                              \/ (Len(kw) = 10 /\ first(kw[10]) < g)

\* An idea of more than 10 distinct words was cut to its first 10.
C8_Witness ==
    /\ Called /\ call.fn = "_keywords_from_idea"
    /\ Len(ret.value) = 10
    /\ Len(Split(Replace(Replace(call.idea, "-", " "), "/", " "))) > 10

-----------------------------------------------------------------------------
(* C9 *)

\* The tags of the Instagram text: what follows the caption and the blank line.
IgBlock ==
    LET text == ret.value.instagram.text
        skip == Len(_apply_tone(CleanIdea, call.tone)) + 2
    IN  SubSeq(text, skip + 1, Len(text))

\* Every keyword, the tone and the three fixed words, as line 182 lists them.
IgWords ==
    _keywords_from_idea(CleanIdea)
        \o <<Str(call.tone), Str("socialmedia"), Str("content"), Str("brand")>>

IgCaption ==
    StartsWith(ret.value.instagram.text, _apply_tone(CleanIdea, call.tone) \o <<"\n", "\n">>)

\* The block holds a tag for the word: "#" and its first 22 characters.
HasTagFor(tags, word) == \E i \in DOMAIN tags : tags[i] = <<"#">> \o Take(word, 22)

\* C9 as stated: the Instagram text is the caption, a blank line and a block
\* that holds a tag for every keyword, for the tone and for each of
\* socialmedia, content and brand.
C9_AllTagsPresent ==
    Returned =>
        LET tags  == Split(IgBlock)
            words == IgWords
        IN  IgCaption /\ \A i \in DOMAIN words : HasTagFor(tags, words[i])

\* C9 amended: the block is the first 12 of those tags, joined by single
\* spaces; so every one of them is there when at most 8 keywords were drawn.
C9_First12Tags ==
    Returned =>
        LET tags  == Split(IgBlock)
            words == IgWords
        IN  /\ IgCaption
            /\ IgBlock = Join([i \in 1..Min(12, Len(words)) |->
                                  <<"#">> \o Take(words[i], 22)], <<" ">>)
            /\ (Len(words) <= 12 => \A i \in DOMAIN words : HasTagFor(tags, words[i]))

\* Ten keywords were drawn, so that tags were dropped.
C9_Witness == Returned /\ Len(IgWords) = 14 /\ SpacePieces(IgBlock) = 12

-----------------------------------------------------------------------------
(* C10 *)

\* C10: a request that passes schema validation is never answered 500: it
\* is answered 200 with the three posts when the trimmed idea has at least
\* 3 characters, and 400 otherwise.
C10_Never500 ==
    (pc = "done" /\ Len(body.idea) >= 3 /\ body.tone \in Tones \cup {NoTone})
        => /\ resp.status # 500
           /\ IF Len(Strip(body.idea)) >= 3
              THEN resp.status = 200
                   /\ DOMAIN resp.body = {"linkedin", "twitter", "instagram"}
              ELSE resp.status = 400

\* A body without a tone was answered 200.
C10_Witness ==
    /\ pc = "done" /\ body.tone = NoTone /\ resp.status = 200
    /\ resp.body.linkedin.platform = "linkedin"

-----------------------------------------------------------------------------
(* C4 *)

\* Thread t has answered.
Done(t) == tpc[t] = "done"

\* Two answered requests with the same idea and tone got the same response,
\* and each got the response generate_posts alone determines.
SameInputSameOutput ==
    /\ \A t, u \in Threads :
          (Done(t) /\ Done(u) /\ treq[t] = treq[u]) => tresp[t] = tresp[u]
    /\ \A t \in Threads :
          Done(t) => tresp[t] = Respond(generate_posts(treq[t].idea, treq[t].tone))

\* A step of one thread leaves the request, locals and response of every
\* other thread as they were.
NoInterference ==
    \A t, u \in Threads :
        (t # u /\ tpc'[t] # tpc[t])
            => (treq'[u] = treq[u] /\ frame'[u] = frame[u] /\ tresp'[u] = tresp[u])

\* C4: across every interleaving of requests, equal (idea, tone) give equal
\* responses, each the one generate_posts determines, and no request
\* changes what another request holds.
C4_FunctionOfInput == []SameInputSameOutput /\ [][NoInterference]_vars

\* Two threads have each answered the same request with a 200.
C4_Witness ==
    /\ Done(1) /\ Done(2) /\ treq[1] = treq[2]
    /\ tresp[1].status = 200 /\ tresp[2].status = 200

=============================================================================
